---- MODULE Spec2Model ----
(***************************************************************************)
(* Model of the two scripts of the repository:                             *)
(*   VoiceServer/kokoro-server.py          the speech synthesis server     *)
(*   skills/FitnessCoach/Tools/GarminSync.py   the fitness data aggregator *)
(*                                                                         *)
(* Python values.  None is the empty tuple <<>> and a present value v is   *)
(* the one-element tuple <<v>>, so that "no value" and "the value 0" are   *)
(* different values.  A provider dict is a function whose DOMAIN is the    *)
(* set of keys the provider sent.  A Python str that the code searches is  *)
(* a tuple of one-character strings.                                       *)
(***************************************************************************)
EXTENDS Integers, Sequences, FiniteSets, TLC

VARIABLES
    \* ---- kokoro-server.py
    vpc,              \* position of main(): start, preloaded, serving, crashed, stopped
    kokoro_instance,  \* the module global: None or <<id of the Kokoro object>>
    constructions,    \* how many times Kokoro(...) was called
    downloads,        \* how many times urlretrieve was called
    modelFile,        \* os.path.exists(MODEL_PATH)
    voicesFile,       \* os.path.exists(VOICES_PATH)
    req,              \* the request being answered (None before the first)
    sent,             \* the status codes given to send_response for req, in order
    respBody,         \* the last body handed to wfile.write for req
    engineCalled,     \* whether kokoro.create ran for req
    logged,           \* the request log lines emitted for req
    \* ---- GarminSync.py
    pc,               \* position of the run
    days,             \* args.days
    output,           \* args.output
    i,                \* the loop index of the scan in progress
    window,           \* the bound of the range() of the scan in progress
    seen,             \* the provider's answers to the scan in progress, by offset
    sleep_records,    \* get_sleep_data's list
    sleep,            \* format_sleep's result
    hrv,              \* get_hrv_data's result
    recovery,         \* get_recovery_data's dict
    resting_hr,       \* get_recovery_data's resting_hr
    activities,       \* the raw activity list
    formatted,        \* [format_activity(a) for a in activities]
    result,           \* the result document of main()
    printed,          \* what main() wrote to stdout: the sections, in order
    errors,           \* what was written to stderr
    exitCode,         \* the process's exit status, None while running
    calls             \* the provider calls made, in order

voiceVars == <<vpc, kokoro_instance, constructions, downloads, modelFile, voicesFile,
               req, sent, respBody, engineCalled, logged>>
garminVars == <<pc, days, output, i, window, seen, sleep_records, sleep, hrv, recovery,
                resting_hr, activities, formatted, result, printed, errors, exitCode,
                calls>>
vars == <<voiceVars, garminVars>>

None == <<>>
Some(v) == <<v>>
Val(x) == x[1]

\* dict.get(key, default): the default only when the key is absent
Get(d, k, default) == IF k \in DOMAIN d THEN d[k] ELSE default

\* the dicts that either lack key k or hold it with a value of S
Opt(k, S) == { <<>> } \cup { k :> v : v \in S }

(***************************************************************************)
(* kokoro-server.py                                                        *)
(***************************************************************************)

\* JSON values of a request body
JStr(s) == [t |-> "str", s |-> s, n |-> 0]
JNum(n) == [t |-> "num", s |-> "", n |-> n]
JNull == [t |-> "null", s |-> "", n |-> 0]

\* Python truth value of a JSON value ("not text" is its negation)
Truthy(v) ==
    CASE v.t = "str" -> v.s /= ""
      [] v.t = "num" -> v.n /= 0
      [] OTHER -> FALSE

\* float(v) raises for None and for a string that is no number
NumericStrings == {"1.5"}
FloatRaises(v) ==
    CASE v.t = "num" -> FALSE
      [] v.t = "str" -> v.s \notin NumericStrings
      [] OTHER -> TRUE

SpeechPath == <<"/","v","1","/","a","u","d","i","o","/","s","p","e","e","c","h">>
ModelsPath == <<"/","v","1","/","m","o","d","e","l","s">>
HealthPath == <<"/","h","e","a","l","t","h">>
RootPath == <<"/">>
OddPath == <<"/","5","0","0">>
Paths == {SpeechPath, ModelsPath, HealthPath, RootPath, OddPath}

\* "sub in s" of Python, on tuples of characters
Contains(s, sub) ==
    \E k \in 0..(Len(s) - Len(sub)) : SubSeq(s, k + 1, k + Len(sub)) = sub

Digit(d) == CASE d = 0 -> "0" [] d = 1 -> "1" [] d = 2 -> "2" [] d = 3 -> "3"
              [] d = 4 -> "4" [] d = 5 -> "5" [] d = 6 -> "6" [] d = 7 -> "7"
              [] d = 8 -> "8" [] OTHER -> "9"
\* str(code) of a three-digit status code
StrCode(code) == <<Digit(code \div 100), Digit((code \div 10) % 10), Digit(code % 10)>>

\* BaseHTTPRequestHandler.requestline
RequestLine(r) ==
    (IF r.method = "POST" THEN <<"P","O","S","T">> ELSE <<"G","E","T">>)
        \o <<" ">> \o r.path \o <<" ","H","T","T","P","/","1",".","1">>

\* log_message(format, *args): the line is emitted when args[0] contains "500"
LogMessage(args) == Len(args) > 0 /\ Contains(args[1], <<"5","0","0">>)

\* send_response(code) calls log_request(code), which calls
\* log_message('"%s" %s %s', self.requestline, str(code), '-')
LogRequest(r, code) ==
    IF LogMessage(<<RequestLine(r), StrCode(code), <<"-">>>>) THEN <<code>> ELSE <<>>

\* the bodies a client can send: no JSON, a JSON list, or a JSON object
Inputs == {JStr(""), JStr("hi"), JNull, JNum(0)}
Voices == {JStr("af_heart")}
Speeds == {JNum(1), JStr("1.5"), JStr("fast"), JNull}
Objects == { a @@ b @@ c : a \in Opt("input", Inputs), b \in Opt("voice", Voices),
                           c \in Opt("speed", Speeds) }
Bodies == { [kind |-> "invalid", obj |-> <<>>], [kind |-> "list", obj |-> <<>>] }
              \cup { [kind |-> "object", obj |-> o] : o \in Objects }
ContentLengths == {"absent", "exact", "garbage"}
NoBody == [kind |-> "invalid", obj |-> <<>>]
\* a GET carries no body; a POST is read no further than the code reads it: the
\* body only on the speech path, and only with a Content-Length that int() accepts
GetRequests == [method : {"GET"}, path : Paths, clen : {"absent"}, body : {NoBody},
                createOk : {TRUE}, writeOk : BOOLEAN]
PostRequests ==
    [method : {"POST"}, path : Paths \ {SpeechPath}, clen : {"exact"}, body : {NoBody},
     createOk : {TRUE}, writeOk : BOOLEAN]
    \cup [method : {"POST"}, path : {SpeechPath}, clen : {"absent", "garbage"},
          body : {NoBody}, createOk : {TRUE}, writeOk : BOOLEAN]
    \cup [method : {"POST"}, path : {SpeechPath}, clen : {"exact"}, body : Bodies,
          createOk : BOOLEAN, writeOk : BOOLEAN]

CountCap == 3
Bump(n) == IF n < CountCap THEN n + 1 ELSE n

\* get_kokoro() with a missing "is None" test: it builds a new engine on every call
M_GetKokoro(k, dlOk, ctorOk) ==
    IF ~ctorOk
    THEN [k |-> k, raised |-> TRUE]
    ELSE [k |-> [k EXCEPT !.inst = Some(Bump(k.constructions)),
                          !.constructions = Bump(k.constructions)],
          raised |-> FALSE]

\* get_kokoro() on k = the global and the cache directory; dlOk and ctorOk say
\* whether urlretrieve and Kokoro(...) succeed
GetKokoro(k, dlOk, ctorOk) ==
    IF k.inst /= None
    THEN [k |-> k, raised |-> FALSE]
    ELSE
      LET needModel == ~k.modelFile
          k1 == IF needModel
                THEN [k EXCEPT !.downloads = Bump(@), !.modelFile = dlOk] ELSE k
          needVoices == ~k1.voicesFile
          k2 == IF needVoices
                THEN [k1 EXCEPT !.downloads = Bump(@), !.voicesFile = dlOk] ELSE k1
      IN  IF needModel /\ ~dlOk THEN [k |-> k1, raised |-> TRUE]
          ELSE IF needVoices /\ ~dlOk THEN [k |-> k2, raised |-> TRUE]
          ELSE IF ~ctorOk
               THEN [k |-> [k2 EXCEPT !.constructions = Bump(@)], raised |-> TRUE]
               ELSE [k |-> [k2 EXCEPT !.inst = Some(Bump(k2.constructions)),
                                      !.constructions = Bump(@)],
                     raised |-> FALSE]

Engine == [inst |-> kokoro_instance, constructions |-> constructions,
           downloads |-> downloads, modelFile |-> modelFile, voicesFile |-> voicesFile]

SetEngine(k) ==
    /\ kokoro_instance' = k.inst
    /\ constructions' = k.constructions
    /\ downloads' = k.downloads
    /\ modelFile' = k.modelFile
    /\ voicesFile' = k.voicesFile

\* what one handler call leaves behind
Answer(codes, body, engine, r, k) ==
    [sent |-> codes, body |-> body, engine |-> engine, k |-> k,
     logged |-> IF Len(codes) = 0 THEN <<>>
                ELSE IF Len(codes) = 1 THEN LogRequest(r, codes[1])
                ELSE LogRequest(r, codes[1]) \o LogRequest(r, codes[2])]

MissingInput == "{\"error\": \"Missing 'input' field\"}"

\* the except branch of do_POST: _json_response(500, {"error": str(e)}) after
\* the codes already given to send_response
Except(codes, engine, r, k) == Answer(codes \o <<500>>, "{\"error\": str(e)}", engine, r, k)

\* do_POST for request r; k is the engine state, dlOk and ctorOk as in GetKokoro
DoPOST(r, k, dlOk, ctorOk) ==
    IF r.path /= SpeechPath
    THEN Answer(<<404>>, "{\"error\": \"Not found. Use POST /v1/audio/speech\"}", FALSE, r, k)
    ELSE IF r.clen = "garbage" THEN Except(<<>>, FALSE, r, k)        \* int() raises
    ELSE IF r.clen = "absent" THEN Except(<<>>, FALSE, r, k)         \* json.loads(b"") raises
    ELSE IF r.body.kind = "invalid" THEN Except(<<>>, FALSE, r, k)   \* json.loads raises
    ELSE IF r.body.kind = "list" THEN Except(<<>>, FALSE, r, k)      \* list has no .get
    ELSE
      LET body == r.body.obj
          text == Get(body, "input", JStr(""))
          speed == Get(body, "speed", JNum(1))
      IN  IF FloatRaises(speed) THEN Except(<<>>, FALSE, r, k)
          ELSE IF ~Truthy(text)
          THEN IF r.writeOk THEN Answer(<<400>>, MissingInput, FALSE, r, k)
               ELSE Except(<<400>>, FALSE, r, k)
          ELSE
            LET g == GetKokoro(k, dlOk, ctorOk)
            IN  IF g.raised THEN Except(<<>>, FALSE, r, g.k)
                ELSE IF ~r.createOk THEN Except(<<>>, TRUE, r, g.k)
                ELSE IF r.writeOk THEN Answer(<<200>>, "wav", TRUE, r, g.k)
                ELSE Except(<<200>>, TRUE, r, g.k)

\* do_GET: every path answers 200
DoGET(r, k) ==
    Answer(<<200>>,
           IF r.path = ModelsPath THEN "models"
           ELSE IF r.path = HealthPath THEN "health" ELSE "message",
           FALSE, r, k)

Record(r, a) ==
    /\ req' = Some(r)
    /\ sent' = a.sent
    /\ respBody' = a.body
    /\ engineCalled' = a.engine
    /\ logged' = a.logged
    /\ SetEngine(a.k)

\* main(): get_kokoro() before the server object exists
Preload ==
    /\ vpc = "start"
    /\ \E dlOk \in BOOLEAN, ctorOk \in BOOLEAN :
         LET g == GetKokoro(Engine, dlOk, ctorOk)
         IN  /\ SetEngine(g.k)
             /\ vpc' = IF g.raised THEN "crashed" ELSE "preloaded"
    /\ UNCHANGED <<req, sent, respBody, engineCalled, logged, garminVars>>

\* main(): HTTPServer(("0.0.0.0", port), KokoroHandler) binds the listener
Bind ==
    /\ vpc = "preloaded"
    /\ \E bindOk \in BOOLEAN : vpc' = IF bindOk THEN "serving" ELSE "crashed"
    /\ UNCHANGED <<kokoro_instance, constructions, downloads, modelFile, voicesFile,
                   req, sent, respBody, engineCalled, logged, garminVars>>

\* serve_forever(): one POST request, handled to the end
HandlePOST ==
    /\ vpc = "serving"
    /\ \E r \in PostRequests, ok \in (IF kokoro_instance = None THEN BOOLEAN ELSE {TRUE}) :
         Record(r, DoPOST(r, Engine, ok, ok))
    /\ UNCHANGED <<vpc, garminVars>>

\* serve_forever(): one GET request, handled to the end
HandleGET ==
    /\ vpc = "serving"
    /\ \E r \in GetRequests : Record(r, DoGET(r, Engine))
    /\ UNCHANGED <<vpc, garminVars>>

\* KeyboardInterrupt in serve_forever()
Shutdown ==
    /\ vpc = "serving"
    /\ vpc' = "stopped"
    /\ UNCHANGED <<kokoro_instance, constructions, downloads, modelFile, voicesFile,
                   req, sent, respBody, engineCalled, logged, garminVars>>

(***************************************************************************)
(* GarminSync.py                                                           *)
(***************************************************************************)

\* datetime.now(), as a day number; the date of offset k is Today - k
Today == 100
DateOf(k) == Today - k

\* Python truth value of an optional number: None and 0 are false
TruthyNum(x) == x /= None /\ x /= Some(0)

\* round(x) of Python 3 on a value given in tenths: to the nearest, ties to even
Round(t) ==
    LET q == t \div 10
        r == t % 10
    IN  IF r > 5 \/ (r = 5 /\ q % 2 = 1) THEN q + 1 ELSE q

\* a provider call either raises, returns a false value (None or {}), returns a
\* value that is no dict, or returns a dict d with at least one key
Raise == [kind |-> "raise", d |-> <<>>]
Falsy == [kind |-> "falsy", d |-> <<>>]
NoDict == [kind |-> "list", d |-> <<>>]
Dict(d) == [kind |-> "dict", d |-> d]
NonEmpty(D) == { d \in D : DOMAIN d /= {} }

\* ---- sleep

SleepDTOs == { a @@ ("deepSleepSeconds" :> Some(3600)) :
                 a \in Opt("sleepTimeSeconds", {None, Some(0), Some(28800), Some(21600)}) }
SleepDicts == { a @@ ("restlessMomentsCount" :> Some(7)) :
                  a \in Opt("dailySleepDTO", {None} \cup { Some(x) : x \in SleepDTOs }) }
SleepResponses == {Raise, Falsy} \cup { Dict(d) : d \in SleepDicts }

\* get_sleep_data with the scan order reversed: range(days - 1, -1, -1)
M_SleepDay(records, k, resp) ==
    IF resp.kind = "dict" /\ Get(resp.d, "dailySleepDTO", Some(<<>>)) /= None
         /\ TruthyNum(Get(Val(Get(resp.d, "dailySleepDTO", Some(<<>>))), "sleepTimeSeconds", None))
    THEN <<[date |-> DateOf(k), raw |-> resp.d]>> \o records
    ELSE records

\* the body of the loop of get_sleep_data for offset k and the provider's answer
SleepDay(records, k, resp) ==
    IF resp.kind = "raise" THEN records                      \* except Exception: pass
    ELSE IF resp.kind /= "dict" THEN records                  \* if sleep_data:
    ELSE LET daily_sleep == Get(resp.d, "dailySleepDTO", Some(<<>>))
         IN  IF daily_sleep = None THEN records               \* None.get raises, swallowed
             ELSE IF TruthyNum(Get(Val(daily_sleep), "sleepTimeSeconds", None))
                  THEN Append(records, [date |-> DateOf(k), raw |-> resp.d])
                  ELSE records

RECURSIVE SleepLoop(_, _, _, _)
SleepLoop(f, n, k, records) ==
    IF k >= n THEN records ELSE SleepLoop(f, n, k + 1, SleepDay(records, k, f[k]))

\* get_sleep_data(client, days), f[k] being the provider's answer for offset k
GetSleepData(f, n) == SleepLoop(f, n, 0, <<>>)

\* format_sleep(sleep_records)
FormatSleep(records) ==
    IF records = <<>> THEN None
    ELSE LET latest == records[1].raw
             daily_sleep == Val(Get(latest, "dailySleepDTO", Some(latest)))
         IN  Some([date |-> records[1].date,
                   sleepTimeSeconds |-> Get(daily_sleep, "sleepTimeSeconds", None),
                   deepSleepSeconds |-> Get(daily_sleep, "deepSleepSeconds", None)])

\* ---- HRV

\* numbers of the HRV summary are in tenths of a millisecond
Baselines == { a @@ b : a \in Opt("balancedLow", {Some(0), Some(304)}),
                        b \in Opt("balancedUpper", {Some(525)}) }
HrvSummaries ==
    NonEmpty({ a @@ b @@ c @@ e :
                 a \in Opt("weeklyAvg", {None, Some(0), Some(455)}),
                 b \in Opt("lastNightAvg", {Some(386)}),
                 c \in Opt("baseline", {None} \cup { Some(x) : x \in Baselines }),
                 e \in Opt("status", {None, Some("LOW_BALANCED")}) })
HrvDicts == NonEmpty({ a @@ b : a \in Opt("hrvSummary", {None, Some(<<>>)}
                                            \cup { Some(x) : x \in HrvSummaries }),
                                b \in Opt("userProfilePk", {Some(1)}) })
HrvResponses == {Raise, Falsy} \cup { Dict(d) : d \in HrvDicts }

\* raw_status.replace('_', ' ').title()
Title(s) ==
    CASE s = "LOW_BALANCED" -> "Low Balanced"
      [] s = "BALANCED" -> "Balanced"
      [] OTHER -> s

RoundOpt(x) == IF TruthyNum(x) THEN Some(Round(Val(x))) ELSE None

\* whether the answer holds a populated hrvSummary:
\* hrv_response and hrv_response.get('hrvSummary')
Populated(resp) ==
    /\ resp.kind = "dict"
    /\ Get(resp.d, "hrvSummary", None) /= None
    /\ DOMAIN Val(Get(resp.d, "hrvSummary", None)) /= {}

\* the loop body of get_hrv_data without the try/except around it: a fetch that
\* raises leaves the function
M_HrvDay(k, resp) ==
    IF resp.kind = "raise" THEN [to |-> "raise", val |-> None]
    ELSE IF ~Populated(resp) THEN [to |-> "continue", val |-> None]
    ELSE [to |-> "return",
          val |-> Some([date |-> DateOf(k), weeklyAvg |-> None, lastNightAvg |-> None,
                        status |-> "Unknown", baseline |-> None])]

\* the body of the loop of get_hrv_data for offset k: the loop goes on, the
\* function returns a summary, or an exception ends the function with None
HrvDay(k, resp) ==
    IF resp.kind = "raise" THEN [to |-> "except", val |-> None]
    ELSE IF ~Populated(resp) THEN [to |-> "continue", val |-> None]
    ELSE
      LET hrv_summary == Val(resp.d["hrvSummary"])
          baseline == Get(hrv_summary, "baseline", Some(<<>>))
          raw_status == Get(hrv_summary, "status", Some("Unknown"))
      IN  IF raw_status = None THEN [to |-> "except", val |-> None]   \* None.replace
          ELSE [to |-> "return",
                val |-> Some([date |-> DateOf(k),
                              weeklyAvg |-> RoundOpt(Get(hrv_summary, "weeklyAvg", None)),
                              lastNightAvg |-> RoundOpt(Get(hrv_summary, "lastNightAvg", None)),
                              status |-> Title(Val(raw_status)),
                              baseline |->
                                IF baseline /= None /\ DOMAIN Val(baseline) /= {}
                                THEN Some([balancedLow |-> RoundOpt(Get(Val(baseline), "balancedLow", None)),
                                           balancedUpper |-> RoundOpt(Get(Val(baseline), "balancedUpper", None))])
                                ELSE None])]

RECURSIVE HrvLoop(_, _, _)
HrvLoop(f, n, k) ==
    IF k >= n THEN [val |-> None, raised |-> FALSE]
    ELSE LET step == HrvDay(k, f[k])
         IN  IF step.to = "continue" THEN HrvLoop(f, n, k + 1)
             ELSE [val |-> step.val, raised |-> step.to = "raise"]

\* get_hrv_data(client, days), f[k] being the provider's answer for offset k:
\* the value returned, and whether an exception leaves the function
GetHrvData(f, n) == HrvLoop(f, n, 0)

\* the default of get_hrv_data's parameter days
HrvDefaultDays == 7

\* main(): hrv = get_hrv_data(client), called without args.days
HrvWindow(argsDays) == HrvDefaultDays

\* ---- recovery

SummaryDicts ==
    NonEmpty({ a @@ b : a \in Opt("restingHeartRate", {None, Some(0), Some(60)}),
                        b \in Opt("bodyBatteryMostRecentValue", {Some(0), Some(50)}) })
SummaryResponses == {Raise, Falsy} \cup { Dict(d) : d \in SummaryDicts }

ReadinessDicts ==
    NonEmpty({ a @@ b @@ c @@ e : a \in Opt("score", {None, Some(0), Some(80)}),
                                  b \in Opt("level", {Some("HIGH")}),
                                  c \in Opt("sleepScore", {Some(85)}),
                                  e \in Opt("hrvWeeklyAverage", {Some(45)}) })
ReadinessResponses == {Raise, Falsy, NoDict} \cup { Dict(d) : d \in ReadinessDicts }

\* the state get_recovery_data starts from
RecoveryStart ==
    [recovery |-> [score |-> None, level |-> None, bodyBattery |-> None,
                   sleepScore |-> None, hrvWeeklyAverage |-> None],
     resting_hr |-> None]

\* the first try block without "if recovery['bodyBattery'] is None": every day's
\* non-null body battery is stored
M_SummaryPart(st, resp) ==
    IF resp.kind /= "dict" THEN st
    ELSE
      LET rhr == Get(resp.d, "restingHeartRate", None)
          bb == Get(resp.d, "bodyBatteryMostRecentValue", None)
          st1 == IF st.resting_hr = None /\ TruthyNum(rhr)
                 THEN [st EXCEPT !.resting_hr = rhr] ELSE st
      IN  IF bb /= None THEN [st1 EXCEPT !.recovery.bodyBattery = bb] ELSE st1

\* the first try block of the loop body: get_user_summary(date)
SummaryPart(st, resp) ==
    IF resp.kind /= "dict" THEN st
    ELSE
      LET rhr == Get(resp.d, "restingHeartRate", None)
          bb == Get(resp.d, "bodyBatteryMostRecentValue", None)
          st1 == IF st.resting_hr = None /\ TruthyNum(rhr)
                 THEN [st EXCEPT !.resting_hr = rhr] ELSE st
      IN  IF st1.recovery.bodyBattery = None /\ bb /= None
          THEN [st1 EXCEPT !.recovery.bodyBattery = bb] ELSE st1

\* whether the loop body calls get_morning_training_readiness(date)
AsksReadiness(st) == st.recovery.score = None

\* the second try block of the loop body
ReadinessPart(st, resp) ==
    IF AsksReadiness(st) /\ resp.kind = "dict"
    THEN [st EXCEPT !.recovery.score = Get(resp.d, "score", None),
                    !.recovery.level = Get(resp.d, "level", None),
                    !.recovery.sleepScore = Get(resp.d, "sleepScore", None),
                    !.recovery.hrvWeeklyAverage = Get(resp.d, "hrvWeeklyAverage", None)]
    ELSE st

\* one pass of the loop body of get_recovery_data
RecoveryDay(st, sumResp, trResp) == ReadinessPart(SummaryPart(st, sumResp), trResp)

\* the test before "break" with "or" for "and"
M_BothFound(st) == st.recovery.score /= None \/ st.resting_hr /= None

\* the test before "break"
BothFound(st) == st.recovery.score /= None /\ st.resting_hr /= None

\* range(0, 7)
RecoveryWindow == 7

RECURSIVE RecoveryLoop(_, _, _, _)
RecoveryLoop(fs, ft, k, st) ==
    IF k >= RecoveryWindow THEN st
    ELSE LET st1 == RecoveryDay(st, fs[k], ft[k])
         IN  IF BothFound(st1) THEN st1 ELSE RecoveryLoop(fs, ft, k + 1, st1)

\* get_recovery_data(client); fs[k] and ft[k] are the provider's answers for
\* the user summary and the training readiness of offset k
GetRecoveryData(fs, ft) == RecoveryLoop(fs, ft, 0, RecoveryStart)

\* ---- activities

Running == <<"r","u","n","n","i","n","g">>
TrailRunning == <<"t","r","a","i","l","_">> \o Running
StrengthTraining == <<"s","t","r","e","n","g","t","h","_","t","r","a","i","n","i","n","g">>
Yoga == <<"y","o","g","a">>
Unknown == <<"u","n","k","n","o","w","n">>
StartTime == <<"2","0","2","6","-","1","1","-","0","1"," ","0","7",":","0","0",":","0","0">>

TypeDicts == Opt("typeKey", {Running, TrailRunning, StrengthTraining, Yoga})
Acts == { a @@ b @@ c @@ e @@ f @@ g @@ h @@ j :
            a \in Opt("activityName", {"Morning Run"}),
            b \in Opt("activityType", {None} \cup { Some(x) : x \in TypeDicts }),
            c \in Opt("startTimeLocal", {Some(StartTime)}),
            e \in Opt("distance", {None, Some(0), Some(8047)}),
            f \in Opt("duration", {None, Some(1800)}),
            g \in Opt("averageHR", {None, Some(0), Some(150)}),
            h \in Opt("maxHR", {Some(170)}),
            j \in Opt("calories", {None, Some(0), Some(300)}) }

\* a / b rounded to the nearest integer, ties to even (round() of Python 3)
RoundDiv(a, b) ==
    LET q == a \div b
        r == a % b
    IN  IF 2 * r > b \/ (2 * r = b /\ q % 2 = 1) THEN q + 1 ELSE q

MetersPerMile100 == 160934      \* 1609.34, in hundredths

\* int(x) if x else None
IntOpt(x) == IF TruthyNum(x) THEN x ELSE None

\* whether format_activity(act) raises: None has no .get, cannot be sliced or divided
FormatRaises(act) ==
    \/ Get(act, "activityType", Some(<<>>)) = None
    \/ Get(act, "distance", Some(0)) = None
    \/ Get(act, "duration", Some(0)) = None

\* format_activity(act), for an act it does not raise on.  distance_mi is in
\* hundredths of a mile, duration_min in tenths of a minute, pace is
\* <<minutes, seconds>>
FormatActivity(act) ==
    LET act_type == Get(Val(Get(act, "activityType", Some(<<>>))), "typeKey", Unknown)
        start == Get(act, "startTimeLocal", Some(<<>>))
        meters == Val(Get(act, "distance", Some(0)))
        seconds == Val(Get(act, "duration", Some(0)))
        running == Contains(act_type, Running) /\ meters > 0
        secPerMile == IF running THEN (seconds * MetersPerMile100) \div (100 * meters) ELSE 0
    IN  [date |-> SubSeq(Val(start), 1, IF Len(Val(start)) < 10 THEN Len(Val(start)) ELSE 10),
         type |-> act_type,
         name |-> Get(act, "activityName", "Unknown"),
         distance_mi |-> RoundDiv(meters * 10000, MetersPerMile100),
         duration_min |-> RoundDiv(seconds, 6),
         avg_hr |-> IntOpt(Get(act, "averageHR", Some(0))),
         max_hr |-> IntOpt(Get(act, "maxHR", Some(0))),
         calories |-> IntOpt(Get(act, "calories", Some(0))),
         pace |-> IF running THEN Some(<<secPerMile \div 60, secPerMile % 60>>) ELSE None]

\* whether get_stats(activities) raises
StatsRaises(acts) ==
    \E k \in 1..Len(acts) :
        \/ Get(acts[k], "activityType", Some(<<>>)) = None
        \/ Get(acts[k], "distance", Some(0)) = None
        \/ Get(acts[k], "duration", Some(0)) = None
        \/ Get(acts[k], "calories", Some(0)) = None

RECURSIVE SumFrom(_, _)
SumFrom(xs, k) == IF k > Len(xs) THEN 0 ELSE xs[k] + SumFrom(xs, k + 1)

\* get_stats(activities), for a list it does not raise on.  running_miles is in
\* tenths of a mile
GetStats(acts) ==
    LET TypeOf(a) == Get(Val(Get(a, "activityType", Some(<<>>))), "typeKey", <<>>)
        Meters(a) == IF Contains(TypeOf(a), Running) THEN Val(Get(a, "distance", Some(0))) ELSE 0
        RunSec(a) == IF Contains(TypeOf(a), Running) THEN Val(Get(a, "duration", Some(0))) ELSE 0
        Sec(a) == Val(Get(a, "duration", Some(0)))
        Cal(a) == Val(Get(a, "calories", Some(0)))
        Strength(a) == IF Contains(TypeOf(a), <<"s","t","r","e","n","g","t","h">>) THEN 1 ELSE 0
        IsYoga(a) == IF Contains(TypeOf(a), Yoga) THEN 1 ELSE 0
    IN  [running_miles |-> RoundDiv(SumFrom([k \in 1..Len(acts) |-> Meters(acts[k])], 1) * 1000, MetersPerMile100),
         running_time_min |-> RoundDiv(SumFrom([k \in 1..Len(acts) |-> RunSec(acts[k])], 1), 60),
         strength_sessions |-> SumFrom([k \in 1..Len(acts) |-> Strength(acts[k])], 1),
         yoga_sessions |-> SumFrom([k \in 1..Len(acts) |-> IsYoga(acts[k])], 1),
         total_activities |-> Len(acts),
         total_duration_min |-> RoundDiv(SumFrom([k \in 1..Len(acts) |-> Sec(acts[k])], 1), 60),
         total_calories |-> SumFrom([k \in 1..Len(acts) |-> Cal(acts[k])], 1)]

(***************************************************************************)
(* Specifications.  The two scripts are separate processes: each           *)
(* specification runs one of them and leaves the other's variables idle.   *)
(***************************************************************************)

VoiceIdle ==
    /\ vpc = "idle"
    /\ kokoro_instance = None
    /\ constructions = 0
    /\ downloads = 0
    /\ modelFile = FALSE
    /\ voicesFile = FALSE
    /\ req = None
    /\ sent = <<>>
    /\ respBody = ""
    /\ engineCalled = FALSE
    /\ logged = <<>>

GarminBlank ==
    /\ i = 0
    /\ window = 0
    /\ sleep_records = <<>>
    /\ sleep = None
    /\ hrv = None
    /\ recovery = RecoveryStart.recovery
    /\ resting_hr = None
    /\ activities = <<>>
    /\ formatted = <<>>
    /\ result = <<>>
    /\ printed = <<>>
    /\ errors = <<>>
    /\ exitCode = None
    /\ calls = <<>>

GarminIdle ==
    /\ pc = "idle"
    /\ days = 0
    /\ output = "text"
    /\ seen = <<>>
    /\ GarminBlank

\* ---- the speech server process

InitVoice ==
    /\ vpc = "start"
    /\ kokoro_instance = None
    /\ constructions = 0
    /\ downloads = 0
    /\ modelFile \in BOOLEAN
    /\ voicesFile \in BOOLEAN
    /\ req = None
    /\ sent = <<>>
    /\ respBody = ""
    /\ engineCalled = FALSE
    /\ logged = <<>>
    /\ GarminIdle

NextVoice == Preload \/ Bind \/ HandlePOST \/ HandleGET \/ Shutdown

SpecVoice == InitVoice /\ [][NextVoice]_vars

\* ---- get_sleep_data and format_sleep, on every provider of MaxDays days

MaxDays == 3

InitSleep ==
    /\ VoiceIdle
    /\ pc = "sleep"
    /\ days \in 0..MaxDays
    /\ output = "text"
    /\ seen \in [0..(days - 1) -> SleepResponses]
    /\ GarminBlank

\* main(): sleep_records = get_sleep_data(client, args.days)
FetchSleep ==
    /\ pc = "sleep"
    /\ sleep_records' = GetSleepData(seen, days)
    /\ window' = days
    /\ i' = days
    /\ calls' = Append(calls, "get_sleep_data")
    /\ pc' = "format_sleep"
    /\ UNCHANGED <<days, output, seen, sleep, hrv, recovery, resting_hr, activities,
                   formatted, result, printed, errors, exitCode, voiceVars>>

\* main(): sleep = format_sleep(sleep_records)
FormatSleepRecords ==
    /\ pc = "format_sleep"
    /\ sleep' = FormatSleep(sleep_records)
    /\ pc' = "sleep_done"
    /\ UNCHANGED <<days, output, i, window, seen, sleep_records, hrv, recovery, resting_hr,
                   activities, formatted, result, printed, errors, exitCode, calls,
                   voiceVars>>

NextSleep == FetchSleep \/ FormatSleepRecords

SpecSleep == InitSleep /\ [][NextSleep]_vars

\* ---- get_hrv_data as main() calls it, one provider answer per pass of its loop;
\* seen is, per offset asked, whether the answer raised, was empty or held data

InitHrv ==
    /\ VoiceIdle
    /\ pc = "hrv"
    /\ days \in 0..MaxDays
    /\ output = "text"
    /\ seen = <<>>
    /\ GarminBlank

Class(resp) ==
    IF resp.kind = "raise" THEN "raise" ELSE IF Populated(resp) THEN "data" ELSE "empty"

\* main() enters get_hrv_data(client)
HrvEnter ==
    /\ pc = "hrv"
    /\ window' = HrvWindow(days)
    /\ i' = 0
    /\ pc' = "hrv_loop"
    /\ UNCHANGED <<days, output, seen, sleep_records, sleep, hrv, recovery, resting_hr,
                   activities, formatted, result, printed, errors, exitCode, calls,
                   voiceVars>>

\* one pass of the loop of get_hrv_data
HrvFetchDay ==
    /\ pc = "hrv_loop"
    /\ i < window
    /\ \E resp \in HrvResponses :
         LET step == HrvDay(i, resp)
         IN  /\ seen' = Append(seen, Class(resp))
             /\ calls' = Append(calls, "get_hrv_data")
             /\ i' = IF step.to = "continue" THEN i + 1 ELSE i
             /\ hrv' = step.val
             /\ pc' = CASE step.to = "continue" -> "hrv_loop"
                        [] step.to = "raise" -> "exit"
                        [] OTHER -> "hrv_done"
             /\ errors' = CASE step.to = "except" -> Append(errors, "Warning: Could not fetch HRV data")
                            [] step.to = "raise" -> Append(errors, "ERROR")
                            [] OTHER -> errors
             /\ exitCode' = IF step.to = "raise" THEN Some(1) ELSE exitCode
    /\ UNCHANGED <<days, output, window, sleep_records, sleep, recovery, resting_hr,
                   activities, formatted, result, printed, voiceVars>>

\* the loop of get_hrv_data ends without data: return None
HrvExhausted ==
    /\ pc = "hrv_loop"
    /\ i >= window
    /\ hrv' = None
    /\ pc' = "hrv_done"
    /\ UNCHANGED <<days, output, i, window, seen, sleep_records, sleep, recovery,
                   resting_hr, activities, formatted, result, printed, errors, exitCode,
                   calls, voiceVars>>

NextHrv == HrvEnter \/ HrvFetchDay \/ HrvExhausted

SpecHrv == InitHrv /\ [][NextHrv]_vars

\* ---- get_recovery_data, one pair of provider answers per pass of its loop.
\* seen records what the provider returned to the calls made so far:
\*   first[f]   the first non-null value returned for field f
\*   rhr        the first restingHeartRate returned that is neither null nor 0
\*   lastTr     the last readiness dict returned
\*   lastBb     the bodyBatteryMostRecentValue the latest user summary returned

NoneSeen ==
    [first |-> [score |-> None, level |-> None, bodyBattery |-> None, sleepScore |-> None,
                hrvWeeklyAverage |-> None, restingHR |-> None],
     rhr |-> None, lastTr |-> None, lastBb |-> None]

First(old, new) == IF old = None THEN new ELSE old

Observe(g, sumResp, asked, trResp) ==
    LET sd == IF sumResp.kind = "dict" THEN sumResp.d ELSE <<>>
        td == IF asked /\ trResp.kind = "dict" THEN trResp.d ELSE <<>>
        rhr == Get(sd, "restingHeartRate", None)
        bb == Get(sd, "bodyBatteryMostRecentValue", None)
    IN  [first |-> [score |-> First(g.first.score, Get(td, "score", None)),
                    level |-> First(g.first.level, Get(td, "level", None)),
                    bodyBattery |-> First(g.first.bodyBattery, bb),
                    sleepScore |-> First(g.first.sleepScore, Get(td, "sleepScore", None)),
                    hrvWeeklyAverage |-> First(g.first.hrvWeeklyAverage,
                                               Get(td, "hrvWeeklyAverage", None)),
                    restingHR |-> First(g.first.restingHR, rhr)],
         rhr |-> IF g.rhr = None /\ rhr /= None /\ rhr /= Some(0) THEN rhr ELSE g.rhr,
         lastTr |-> IF asked /\ trResp.kind = "dict"
                    THEN Some([score |-> Get(td, "score", None),
                               level |-> Get(td, "level", None),
                               sleepScore |-> Get(td, "sleepScore", None),
                               hrvWeeklyAverage |-> Get(td, "hrvWeeklyAverage", None)])
                    ELSE g.lastTr,
         lastBb |-> bb]

InitRecovery ==
    /\ VoiceIdle
    /\ pc = "recovery"
    /\ days = 7
    /\ output = "text"
    /\ seen = NoneSeen
    /\ GarminBlank

\* main() enters get_recovery_data(client)
RecoveryEnter ==
    /\ pc = "recovery"
    /\ window' = RecoveryWindow
    /\ i' = 0
    /\ recovery' = RecoveryStart.recovery
    /\ resting_hr' = RecoveryStart.resting_hr
    /\ pc' = "recovery_loop"
    /\ UNCHANGED <<days, output, seen, sleep_records, sleep, hrv, activities, formatted,
                   result, printed, errors, exitCode, calls, voiceVars>>

\* one pass of the loop of get_recovery_data, for days_ago = i
RecoveryScanDay ==
    /\ pc = "recovery_loop"
    /\ i < window
    /\ \E sumResp \in SummaryResponses :
       \E trResp \in (IF AsksReadiness(SummaryPart([recovery |-> recovery,
                                                     resting_hr |-> resting_hr], sumResp))
                      THEN ReadinessResponses ELSE {Falsy}) :
         LET st == [recovery |-> recovery, resting_hr |-> resting_hr]
             asked == AsksReadiness(SummaryPart(st, sumResp))
             st1 == RecoveryDay(st, sumResp, trResp)
         IN  /\ recovery' = st1.recovery
             /\ resting_hr' = st1.resting_hr
             /\ seen' = Observe(seen, sumResp, asked, trResp)
             /\ i' = i + 1
             /\ pc' = IF BothFound(st1) THEN "recovery_done" ELSE "recovery_loop"
    /\ UNCHANGED <<days, output, window, sleep_records, sleep, hrv, activities, formatted,
                   result, printed, errors, exitCode, calls, voiceVars>>

\* the loop of get_recovery_data ends with the window scanned
RecoveryExhausted ==
    /\ pc = "recovery_loop"
    /\ i >= window
    /\ pc' = "recovery_done"
    /\ UNCHANGED <<days, output, i, window, seen, sleep_records, sleep, hrv, recovery,
                   resting_hr, activities, formatted, result, printed, errors, exitCode,
                   calls, voiceVars>>

NextRecovery == RecoveryEnter \/ RecoveryScanDay \/ RecoveryExhausted

SpecRecovery == InitRecovery /\ [][NextRecovery]_vars

\* ---- main()

\* the except branch of main(): print ERROR to stderr, sys.exit(1)
Fail ==
    /\ errors' = Append(errors, "ERROR")
    /\ exitCode' = Some(1)
    /\ pc' = "exit"

\* main(): the derived values; any exception of format_activity or get_stats
\* reaches the except branch
Derive ==
    /\ pc = "derive"
    /\ IF (\E k \in 1..Len(activities) : FormatRaises(activities[k])) \/ StatsRaises(activities)
       THEN /\ Fail
            /\ seen' = seen \cup {"derive"}
            /\ UNCHANGED <<formatted, sleep>>
       ELSE /\ formatted' = [k \in 1..Len(activities) |-> FormatActivity(activities[k])]
            /\ sleep' = FormatSleep(sleep_records)
            /\ pc' = "render"
            /\ UNCHANGED <<errors, exitCode, seen>>
    /\ UNCHANGED <<days, output, i, window, sleep_records, hrv, recovery, resting_hr,
                   activities, result, printed, calls, voiceVars>>

\* the text report with the "if sleep:" test missing
M_RenderText(sl, rec, rhr, h, acts) ==
    <<"header", "SLEEP">>
      \o (IF rec.score /= None \/ rhr /= None THEN <<"RECOVERY">> ELSE <<>>)
      \o (IF h /= None THEN <<"HRV STATUS">> ELSE <<>>)
      \o <<"ACTIVITY SUMMARY", "ACTIVITIES">> \o [k \in 1..Len(acts) |-> "activity"]
      \o <<"footer">>

\* the text report of main(): the lines printed, each named by its label
RenderText(sl, rec, rhr, h, acts) ==
    <<"header">>
      \o (IF sl /= None THEN <<"SLEEP", "Total", "Deep">> ELSE <<>>)
      \o (IF rec.score /= None \/ rhr /= None
          THEN <<"RECOVERY">>
                 \o (IF rec.score /= None THEN <<"Training Readiness">> ELSE <<>>)
                 \o (IF rec.bodyBattery /= None THEN <<"Body Battery">> ELSE <<>>)
                 \o (IF rhr /= None THEN <<"Resting HR">> ELSE <<>>)
                 \o (IF rec.sleepScore /= None THEN <<"Sleep Score">> ELSE <<>>)
          ELSE <<>>)
      \o (IF h /= None
          THEN <<"HRV STATUS", "Weekly Average", "Last Night", "Status">>
                 \o (IF Val(h).baseline /= None
                        /\ TruthyNum(Val(Val(h).baseline).balancedLow)
                        /\ TruthyNum(Val(Val(h).baseline).balancedUpper)
                     THEN <<"Baseline Range">> ELSE <<>>)
          ELSE <<>>)
      \o <<"ACTIVITY SUMMARY", "Running", "Strength", "Yoga", "Total">>
      \o <<"ACTIVITIES">> \o [k \in 1..Len(acts) |-> "activity"]
      \o <<"footer">>

\* the result document of main()
ResultDoc(user, n, rec, rhr, h, sl, stats, acts) ==
    [user |-> user, period_days |-> n, recovery |-> rec, restingHR |-> rhr, hrv |-> h,
     sleep |-> sl, stats |-> stats, activities |-> acts]

\* main(): client.get_full_name(), the result document and the output
Render ==
    /\ pc = "render"
    /\ calls' = Append(calls, "get_full_name")
    /\ \E nameOk \in BOOLEAN :
         IF ~nameOk
         THEN /\ Fail
              /\ seen' = seen \cup {"get_full_name"}
              /\ UNCHANGED <<result, printed>>
         ELSE /\ result' = ResultDoc("name", days, recovery, resting_hr, hrv, sleep,
                                     GetStats(activities), formatted)
              /\ printed' = IF output = "json" THEN <<"json">>
                            ELSE RenderText(sleep, recovery, resting_hr, hrv, formatted)
              /\ exitCode' = Some(0)
              /\ pc' = "exit"
              /\ UNCHANGED <<errors, seen>>
    /\ UNCHANGED <<days, output, i, window, sleep_records, sleep, hrv, recovery,
                   resting_hr, activities, formatted, voiceVars>>

\* ---- format_activity and get_stats on every single activity of Acts; seen is
\* the set of steps that raised

InitActivity ==
    /\ VoiceIdle
    /\ pc = "derive"
    /\ days = 7
    /\ output \in {"json", "text"}
    /\ seen = {}
    /\ i = 0
    /\ window = 0
    /\ sleep_records = <<>>
    /\ sleep = None
    /\ hrv = None
    /\ recovery = RecoveryStart.recovery
    /\ resting_hr = None
    /\ activities \in { <<a>> : a \in Acts }
    /\ formatted = <<>>
    /\ result = <<>>
    /\ printed = <<>>
    /\ errors = <<>>
    /\ exitCode = None
    /\ calls = <<>>

NextActivity == Derive \/ Render

SpecActivity == InitActivity /\ [][NextActivity]_vars

\* ---- the whole run of main().  Each fetch function is one step, applied to a
\* provider drawn from the sets below; seen is the set of steps and datasets in
\* which a call raised during the run

MaxActs == 1

GoodSleep == Dict(("dailySleepDTO" :> Some(("sleepTimeSeconds" :> Some(28800))
                                              @@ ("deepSleepSeconds" :> Some(3600))))
                  @@ ("restlessMomentsCount" :> Some(7)))
GoodHrv == Dict("hrvSummary" :> Some(("weeklyAvg" :> Some(455)) @@ ("status" :> Some("LOW_BALANCED"))))
GoodSummary == Dict(("restingHeartRate" :> Some(60)) @@ ("bodyBatteryMostRecentValue" :> Some(50)))
BatteryOnly == Dict("bodyBatteryMostRecentValue" :> Some(50))
GoodReadiness == Dict(("score" :> Some(80)) @@ ("level" :> Some("HIGH")) @@ ("sleepScore" :> Some(85)))
Run == ("activityType" :> Some("typeKey" :> Running)) @@ ("distance" :> Some(8047))
         @@ ("duration" :> Some(1800)) @@ ("averageHR" :> Some(150)) @@ ("calories" :> Some(300))
Lift == ("activityType" :> Some("typeKey" :> StrengthTraining)) @@ ("duration" :> Some(1800))
          @@ ("calories" :> Some(0))
Broken == ("activityType" :> Some("typeKey" :> Running)) @@ ("distance" :> None)

\* the providers that answer e before offset k and d from offset k on
From(k, e, d) == [j \in 0..(RecoveryWindow - 1) |-> IF j < k THEN e ELSE d]

MainSleepProviders == [0..(days - 1) -> {Raise, Falsy, GoodSleep}]
MainHrvProviders == { From(k, Falsy, d) : k \in {0, 1, 4}, d \in {Raise, Falsy, GoodHrv} }
MainSummaryProviders == { From(k, e, d) : k \in {0, 1}, e \in {Raise},
                                          d \in {Raise, Falsy, GoodSummary, BatteryOnly} }
MainReadinessProviders == { From(k, e, d) : k \in {0, 1}, e \in {Raise},
                                            d \in {Raise, GoodReadiness} }
MainActivityLists == UNION { [1..n -> {Run, Lift, Broken}] : n \in 0..MaxActs }

InitMain ==
    /\ VoiceIdle
    /\ pc = "login"
    /\ days \in 0..MaxDays
    /\ output \in {"json", "text"}
    /\ seen = {}
    /\ GarminBlank

\* main(): client = get_client()
Login ==
    /\ pc = "login"
    /\ calls' = Append(calls, "login")
    /\ \E ok \in BOOLEAN :
         IF ok THEN pc' = "activities" /\ UNCHANGED <<errors, exitCode, seen>>
         ELSE Fail /\ seen' = seen \cup {"login"}
    /\ UNCHANGED <<days, output, i, window, sleep_records, sleep, hrv, recovery,
                   resting_hr, activities, formatted, result, printed, voiceVars>>

\* main(): activities = get_activities(client, args.days)
FetchActivities ==
    /\ pc = "activities"
    /\ calls' = Append(calls, "get_activities_by_date")
    /\ \/ Fail /\ seen' = seen \cup {"activities"} /\ UNCHANGED activities
       \/ \E acts \in MainActivityLists :
            /\ activities' = acts
            /\ pc' = "sleep"
            /\ UNCHANGED <<errors, exitCode, seen>>
    /\ UNCHANGED <<days, output, i, window, sleep_records, sleep, hrv, recovery,
                   resting_hr, formatted, result, printed, voiceVars>>

\* main(): sleep_records = get_sleep_data(client, args.days)
MainSleep ==
    /\ pc = "sleep"
    /\ calls' = Append(calls, "get_sleep_data")
    /\ \E f \in MainSleepProviders :
         /\ sleep_records' = GetSleepData(f, days)
         /\ seen' = seen \cup (IF \E k \in 0..(days - 1) : f[k] = Raise THEN {"sleep"} ELSE {})
    /\ pc' = "hrv"
    /\ UNCHANGED <<days, output, i, window, sleep, hrv, recovery, resting_hr, activities,
                   formatted, result, printed, errors, exitCode, voiceVars>>

\* main(): hrv = get_hrv_data(client)
MainHrv ==
    /\ pc = "hrv"
    /\ calls' = Append(calls, "get_hrv_data")
    /\ \E f \in MainHrvProviders :
         LET r == GetHrvData(f, HrvWindow(days))
             asked == { k \in 0..(HrvWindow(days) - 1) :
                          \A j \in 0..(k - 1) : HrvDay(j, f[j]).to = "continue" }
         IN  /\ seen' = seen \cup (IF \E k \in asked : f[k] = Raise THEN {"hrv"} ELSE {})
             /\ IF r.raised
                THEN Fail /\ UNCHANGED hrv
                ELSE /\ hrv' = r.val
                     /\ pc' = "recovery"
                     /\ errors' = IF \E k \in asked : f[k] = Raise
                                  THEN Append(errors, "Warning: Could not fetch HRV data")
                                  ELSE errors
                     /\ UNCHANGED exitCode
    /\ UNCHANGED <<days, output, i, window, sleep_records, sleep, recovery, resting_hr,
                   activities, formatted, result, printed, voiceVars>>

\* main(): recovery, resting_hr = get_recovery_data(client)
MainRecovery ==
    /\ pc = "recovery"
    /\ calls' = Append(calls, "get_recovery_data")
    /\ \E fs \in MainSummaryProviders, ft \in MainReadinessProviders :
         LET st == GetRecoveryData(fs, ft)
         IN  /\ recovery' = st.recovery
             /\ resting_hr' = st.resting_hr
             /\ seen' = seen \cup (IF fs[0] = Raise \/ ft[0] = Raise THEN {"recovery"} ELSE {})
    /\ pc' = "derive"
    /\ UNCHANGED <<days, output, i, window, sleep_records, sleep, hrv, activities,
                   formatted, result, printed, errors, exitCode, voiceVars>>

NextMain == Login \/ FetchActivities \/ MainSleep \/ MainHrv \/ MainRecovery \/ Derive \/ Render

SpecMain == InitMain /\ [][NextMain]_vars

(***************************************************************************)
(* The claims                                                              *)
(***************************************************************************)

Min(S) == CHOOSE x \in S : \A y \in S : x <= y
Has(line) == \E k \in 1..Len(printed) : printed[k] = line

\* C1: every POST to /v1/audio/speech whose JSON body has no 'input' or an empty
\* 'input' is answered 400 with the body {"error": "Missing 'input' field"},
\* whatever 'voice' and 'speed' are, and the engine is not called.  (Stated for
\* the requests whose response is written without an I/O error.)
C1_MissingInputIs400 ==
    (/\ req /= None
     /\ Val(req).method = "POST"
     /\ Val(req).path = SpeechPath
     /\ Val(req).clen = "exact"
     /\ Val(req).body.kind = "object"
     /\ Val(req).writeOk
     /\ Get(Val(req).body.obj, "input", JStr("")) = JStr(""))
    => (sent = <<400>> /\ respBody = MissingInput /\ ~engineCalled)

\* C2: the engine is built at most once in the process: once kokoro_instance is
\* set, no call of get_kokoro changes it, builds an engine or downloads a file,
\* and the listener is bound only after the pre-load has set kokoro_instance.
C2_EngineBuiltOnce ==
    /\ [](/\ constructions <= 1
          /\ (kokoro_instance /= None => kokoro_instance = Some(1) /\ constructions = 1)
          /\ (vpc \in {"preloaded", "serving", "stopped"} => kokoro_instance /= None))
    /\ [][kokoro_instance /= None
            => UNCHANGED <<kokoro_instance, constructions, downloads>>]_vars

\* C2's case: a request that called get_kokoro and the engine, after the pre-load
C2_RequestUsedEngine ==
    vpc = "serving" /\ engineCalled /\ sent = <<200>> /\ constructions = 1

\* C3: the run exits 1, with ERROR on stderr and nothing printed, when the login
\* or the activity fetch raises, and no later step is then called; a raise of a
\* single day's sleep, HRV or recovery fetch never ends the run: unless one of
\* the other steps raises, the run reaches the render step and exits 0.
C3_FatalOrAbsorbed ==
    /\ (exitCode /= None <=> pc = "exit")
    /\ (exitCode = Some(1)
          => printed = <<>> /\ result = <<>> /\ errors /= <<>>
               /\ errors[Len(errors)] = "ERROR")
    /\ ("login" \in seen => exitCode = Some(1) /\ calls = <<"login">>)
    /\ ("activities" \in seen
          => exitCode = Some(1) /\ calls = <<"login", "get_activities_by_date">>)
    /\ (pc = "exit" /\ seen \subseteq {"sleep", "hrv", "recovery"}
          => /\ exitCode = Some(0)
             /\ printed /= <<>>
             /\ calls = <<"login", "get_activities_by_date", "get_sleep_data",
                          "get_hrv_data", "get_recovery_data", "get_full_name">>)

\* C3's case: a run in which a day's fetch raised in each of the three scans
C3_AllScansRaised ==
    pc = "exit" /\ exitCode = Some(0) /\ seen = {"sleep", "hrv", "recovery"}

\* whether the provider's answer is a sleep record with a non-zero sleepTimeSeconds
HasSleep(resp) ==
    /\ resp.kind = "dict"
    /\ "dailySleepDTO" \in DOMAIN resp.d
    /\ resp.d["dailySleepDTO"] /= None
    /\ "sleepTimeSeconds" \in DOMAIN Val(resp.d["dailySleepDTO"])
    /\ Val(resp.d["dailySleepDTO"])["sleepTimeSeconds"] \notin {None, Some(0)}

\* C4: the selected sleep record is the one of the smallest offset below --days
\* whose fetch returned a non-zero sleepTimeSeconds, dated today minus that
\* offset; days whose fetch raised are skipped; it is null when no offset qualifies.
C4_SleepSelection ==
    pc = "sleep_done" =>
      LET Q == { k \in 0..(days - 1) : HasSleep(seen[k]) }
      IN  IF Q = {} THEN sleep = None
          ELSE /\ sleep /= None
               /\ Val(sleep).date = Today - Min(Q)
               /\ Val(sleep).sleepTimeSeconds
                    = Val(seen[Min(Q)].d["dailySleepDTO"])["sleepTimeSeconds"]

\* C4's case: today's fetch raised, yesterday has an empty record, the day before has data
C4_ThirdDaySelected ==
    /\ pc = "sleep_done"
    /\ days = 3
    /\ seen[0] = Raise
    /\ seen[1] /= Raise /\ ~HasSleep(seen[1])
    /\ HasSleep(seen[2])
    /\ sleep /= None

\* C5: with --days N, N >= 1, the HRV result comes from an offset in 0..N-1
C5_HrvWithinDays ==
    (pc = "hrv_done" /\ days >= 1 /\ hrv /= None) => Today - Val(hrv).date < days

\* C6 as claimed: each field ends, independently of the others, with the first
\* non-null value the provider returned for it during the scan (stated for the
\* five fields of the recovery dict)
C6_EachFieldFirstNonNull ==
    pc = "recovery_done" =>
      /\ recovery.score = seen.first.score
      /\ recovery.level = seen.first.level
      /\ recovery.bodyBattery = seen.first.bodyBattery
      /\ recovery.sleepScore = seen.first.sleepScore
      /\ recovery.hrvWeeklyAverage = seen.first.hrvWeeklyAverage

\* C6 as amended: bodyBattery is the first non-null value and restingHR the first
\* value that is neither null nor 0; score, level, sleepScore and hrvWeeklyAverage
\* are those of one readiness answer, the last dict received, which is asked for
\* only while score is null (so score is the first non-null score); the scan goes
\* on while score or restingHR is null and ends after 7 days at the latest.
C6_RecoveryFields ==
    pc \in {"recovery_loop", "recovery_done"} =>
      /\ recovery.bodyBattery = seen.first.bodyBattery
      /\ resting_hr = seen.rhr
      /\ recovery.score = seen.first.score
      /\ [k \in {"score", "level", "sleepScore", "hrvWeeklyAverage"} |-> recovery[k]]
           = IF seen.lastTr = None
             THEN [k \in {"score", "level", "sleepScore", "hrvWeeklyAverage"} |-> None]
             ELSE [k \in {"score", "level", "sleepScore", "hrvWeeklyAverage"} |-> Val(seen.lastTr)[k]]
      /\ (pc = "recovery_loop" => ~(recovery.score /= None /\ resting_hr /= None))
      /\ (pc = "recovery_done"
            => (recovery.score /= None /\ resting_hr /= None) \/ i = RecoveryWindow)

\* C6's case: a level the provider returned on an earlier day is replaced by the
\* null of the day whose score was taken
C6_LevelReplaced ==
    /\ pc = "recovery_done"
    /\ recovery.score /= None
    /\ recovery.level = None
    /\ seen.first.level /= None

\* C7 as claimed: in text output each of the five sections is printed exactly
\* when its data is present
C7_EverySectionOmitted ==
    (pc = "exit" /\ exitCode = Some(0) /\ output = "text") =>
      /\ Has("SLEEP") <=> sleep /= None
      /\ Has("HRV STATUS") <=> hrv /= None
      /\ Has("RECOVERY") <=> (resting_hr /= None
                               \/ \E k \in DOMAIN recovery : recovery[k] /= None)
      /\ Has("ACTIVITY SUMMARY") <=> activities /= <<>>
      /\ Has("ACTIVITIES") <=> formatted /= <<>>

ResultKeys == {"user", "period_days", "recovery", "restingHR", "hrv", "sleep", "stats",
               "activities"}

\* C7 as amended: in text output the sleep and HRV sections are printed exactly
\* when their record is not null, the recovery section exactly when score or
\* restingHR is not null, and the activity summary and the activity list always;
\* the result document has all eight keys, and JSON output prints it whole.
C7_Sections ==
    (pc = "exit" /\ exitCode = Some(0)) =>
      /\ DOMAIN result = ResultKeys
      /\ output = "json" => printed = <<"json">>
      /\ output = "text" =>
           /\ Has("SLEEP") <=> sleep /= None
           /\ Has("HRV STATUS") <=> hrv /= None
           /\ Has("RECOVERY") <=> (recovery.score /= None \/ resting_hr /= None)
           /\ Has("ACTIVITY SUMMARY")
           /\ Has("ACTIVITIES")

\* C7's case: a text report with no sleep, no HRV, no activity and only a body battery
C7_EmptyTextReport ==
    /\ pc = "exit" /\ exitCode = Some(0) /\ output = "text"
    /\ sleep = None /\ hrv = None /\ activities = <<>>
    /\ recovery.bodyBattery /= None /\ recovery.score = None /\ resting_hr = None
    /\ ~Has("SLEEP") /\ ~Has("RECOVERY") /\ Has("ACTIVITIES")

\* C8: a request log line is emitted exactly for the requests answered with 500
C8_LoggedIff500 ==
    req /= None => (logged /= <<>> <=> \E k \in 1..Len(sent) : sent[k] = 500)

\* C9: an optional field of a formatted activity is null exactly when the
\* provider gave no value for it (the key is missing or null)
C9_NullIffNoValue ==
    (pc \in {"render", "exit"} /\ Len(formatted) = Len(activities)) =>
      \A k \in 1..Len(formatted) :
        /\ formatted[k].avg_hr = None <=> Get(activities[k], "averageHR", None) = None
        /\ formatted[k].max_hr = None <=> Get(activities[k], "maxHR", None) = None
        /\ formatted[k].calories = None <=> Get(activities[k], "calories", None) = None

\* C10 as claimed: while the scan goes on, the body battery a later day returns
\* replaces the one already stored
C10_LaterDayOverwrites ==
    (pc \in {"recovery_loop", "recovery_done"} /\ seen.lastBb /= None)
      => recovery.bodyBattery = seen.lastBb

\* C10 as amended: once bodyBattery is not null no later day of the scan changes
\* it, although the scan goes on until score and restingHR are found
C10_BodyBatteryKept ==
    [][(pc = "recovery_loop" /\ recovery.bodyBattery /= None)
         => recovery'.bodyBattery = recovery.bodyBattery]_vars

\* C10's case: the scan went on and a later day returned another body battery
C10_LaterValueIgnored ==
    /\ pc \in {"recovery_loop", "recovery_done"}
    /\ i >= 2
    /\ recovery.bodyBattery /= None
    /\ seen.lastBb /= None
    /\ seen.lastBb /= recovery.bodyBattery

\* C11: every POST handled by do_POST gets exactly one response status line,
\* one of 200, 400, 404 and 500, also when a step of the handler raises, the
\* write of the 200 or 400 response included: no 500 is started after another
\* response of the same request.  The try block of do_POST encloses the writes
\* of the 400 and the 200 response, so an exception of wfile.write (a client
\* that closed the connection) reaches the except branch, which calls
\* _json_response(500, ...) and so send_response a second time.
C11_OneStatusLine ==
    (req /= None /\ Val(req).method = "POST")
        => (Len(sent) = 1 /\ sent[1] \in {200, 400, 404, 500})

====
